---- MODULE Spec2Model ----
(***************************************************************************)
(* Model of adversarial/models.py: the factory methods that build the      *)
(* classifier, the adversary and the combined network as graphs of Keras   *)
(* layers.  A graph is a sequence of layer nodes in creation order; a node *)
(* names its class, its name, the nodes whose output it is called on and   *)
(* the keyword arguments it was constructed with.                          *)
(***************************************************************************)
EXTENDS Integers, Sequences, FiniteSets, TLC

VARIABLES config, classifier, adversary, combined, uid, rng, call

vars == <<config, classifier, adversary, combined, uid, rng, call>>

(***************************************************************************)
(* Bounds of the model.                                                    *)
(***************************************************************************)
\* longest architecture list passed to a factory method
MaxArch == 2
\* cap on the per-class layer counters of K.get_uid
MaxUid == 4

(***************************************************************************)
(* Python values.  Every value carries a tag, so that truthiness, None and *)
(* the difference between False and an absent key are kept.  Fractions     *)
(* (dropout rates, regularisation strengths, learning-rate ratios) are in  *)
(* fixed-point units.                                                      *)
(***************************************************************************)
PyNone == [tag |-> "none", num |-> 0, str |-> ""]

PyBool(b) == [tag |-> "bool", num |-> IF b THEN 1 ELSE 0, str |-> ""]

PyNum(n) == [tag |-> "num", num |-> n, str |-> ""]

PyStr(s) == [tag |-> "str", num |-> 0, str |-> s]

\* the value of `x` in `if x:` and in `a if x else b`
Truthy(v) ==
    CASE v.tag = "none" -> FALSE
      [] v.tag = "bool" -> v.num = 1
      [] v.tag = "num"  -> v.num # 0
      [] v.tag = "str"  -> v.str # ""
      [] OTHER          -> TRUE

\* regularizers.l1(x), regularizers.l2(x)
RegL1(x) == [tag |-> "l1", num |-> x.num, str |-> ""]

RegL2(x) == [tag |-> "l2", num |-> x.num, str |-> ""]

(***************************************************************************)
(* Python dictionaries: functions from a finite set of keys to values.     *)
(***************************************************************************)
EmptyDict == [k \in {} |-> PyNone]

\* d.update(s) on a copy of d
DictUpdate(d, s) ==
    [k \in (DOMAIN d) \cup (DOMAIN s) |-> IF k \in DOMAIN s THEN s[k] ELSE d[k]]

\* d.pop(k, dflt): the value popped and the dictionary left
DictPop(d, k, dflt) ==
    [val  |-> IF k \in DOMAIN d THEN d[k] ELSE dflt,
     rest |-> [x \in (DOMAIN d) \ {k} |-> d[x]]]

(***************************************************************************)
(* Layer names: strings as sequences of tokens, "/" and "_" being tokens   *)
(* of their own.  The empty sequence is the empty string, and stands for a *)
(* scope of None as well (both are falsy).                                 *)
(***************************************************************************)
NoScope == <<>>

\* layer_name_factory(scope)(name)
layer_name(scope, name) ==
    IF scope # NoScope THEN scope \o <<"/">> \o name ELSE name

\* utils.snake_case on the class names used here
snake_case(cls) ==
    CASE cls = "BatchNormalization"    -> <<"batch", "_", "normalization">>
      [] cls = "Dense"                 -> <<"dense">>
      [] cls = "Dropout"               -> <<"dropout">>
      [] cls = "GradientReversalLayer" -> <<"gradient", "_", "reversal", "_", "layer">>
      [] OTHER                         -> <<cls>>

\* keras_layer_name_factory(scope)(cls), n being the value of K.get_uid(cls)
keras_layer_name(scope, cls, n) ==
    layer_name(scope, snake_case(cls) \o <<"_", ToString(n)>>)

\* name.replace('/', '_')
ReplaceSlash(name) ==
    [i \in DOMAIN name |-> IF name[i] = "/" THEN "_" ELSE name[i]]

\* name.endswith(suffix)
EndsWith(name, suffix) ==
    /\ Len(name) >= Len(suffix)
    /\ SubSeq(name, Len(name) - Len(suffix) + 1, Len(name)) = suffix

(***************************************************************************)
(* Graph construction.  A builder is the graph so far, the global layer    *)
(* counters and the number of draws made from RNG.                         *)
(***************************************************************************)
UidKeys == {"BatchNormalization", "Dense", "Dropout", "GradientReversalLayer"}

Node(cls, name, inbound, kwargs) ==
    [cls |-> cls, name |-> name, inbound |-> inbound, kwargs |-> kwargs]

\* Input(shape=(n,), name=name)
InputNode(n, name) == Node("InputLayer", name, <<>>, [shape |-> PyNum(n)])

\* cls(name=keras_layer_name(cls), **kwargs)(b.g[l]): K.get_uid(cls) counts up
AddCounted(b, scope, cls, inbound, kwargs) ==
    LET n == b.uid[cls] + 1 IN
    [b EXCEPT !.g   = Append(@, Node(cls, keras_layer_name(scope, cls, n), inbound, kwargs)),
              !.uid = [@ EXCEPT ![cls] = n]]

\* cls(name=name, **kwargs)(...)
AddNamed(b, cls, name, inbound, kwargs) ==
    [b EXCEPT !.g = Append(@, Node(cls, name, inbound, kwargs))]

(***************************************************************************)
(* stack_layers.  A stack is a builder b and the layer l (an index of b.g) *)
(* that the next layer is called on.                                       *)
(***************************************************************************)
\* l = <the layer just appended to b2.g>
Stacked(b2) == [b |-> b2, l |-> Len(b2.g)]

\* (mutant) the defaults overwrite the layer's own options
LayerOptsDefaultWins(default, spec) == DictUpdate(spec, default)

\* opts = dict(**default); opts.update(spec)
LayerOpts(default, spec) == DictUpdate(default, spec)

\* the four pops of the non-standard keyword arguments, in the code's order
PopOptions(opts) ==
    LET p1 == DictPop(opts,    "batchnorm", PyBool(FALSE))
        p2 == DictPop(p1.rest, "dropout",   PyNone)
        p3 == DictPop(p2.rest, "l1reg",     PyNone)
        p4 == DictPop(p3.rest, "l2reg",     PyNone)
    IN  [batchnorm |-> p1.val, dropout |-> p2.val,
         l1reg |-> p3.val, l2reg |-> p4.val, opts |-> p4.rest]

\* the keyword arguments of the Dense layer, its name apart
DenseKwargs(o) ==
    DictUpdate([activity_regularizer |-> IF Truthy(o.l1reg) THEN RegL1(o.l1reg) ELSE PyNone,
                kernel_regularizer   |-> IF Truthy(o.l2reg) THEN RegL2(o.l2reg) ELSE PyNone],
               o.opts)

\* 1: (opt.) batch normalisation layer before the dense layer
StackBatchNorm(s, o, scope) ==
    IF Truthy(o.batchnorm)
    THEN Stacked(AddCounted(s.b, scope, "BatchNormalization", <<s.l>>, EmptyDict))
    ELSE s

\* 2: the dense layer
StackDense(s, o, scope) ==
    Stacked(AddCounted(s.b, scope, "Dense", <<s.l>>, DenseKwargs(o)))

\* 3: (opt.) dropout regularisation layer after the dense layer, seeded by
\* the next draw of RNG
StackDropout(s, o, scope) ==
    IF Truthy(o.dropout)
    THEN Stacked(AddCounted([s.b EXCEPT !.rng = @ + 1], scope, "Dropout", <<s.l>>,
                            [rate |-> o.dropout, seed |-> PyNum(s.b.rng + 1)]))
    ELSE s

\* (mutant) the batch normalisation layer is added after the dense layer
StackOneNormAfter(s, spec, default, scope) ==
    LET o == PopOptions(LayerOpts(default, spec)) IN
    StackDropout(StackBatchNorm(StackDense(s, o, scope), o, scope), o, scope)

\* one turn of the loop over the layer specifications
StackOne(s, spec, default, scope) ==
    LET o == PopOptions(LayerOpts(default, spec)) IN
    StackDropout(StackDense(StackBatchNorm(s, o, scope), o, scope), o, scope)

RECURSIVE StackFrom(_, _, _, _, _)
StackFrom(s, architecture, default, scope, i) ==
    IF i > Len(architecture)
    THEN s
    ELSE StackFrom(StackOne(s, architecture[i], default, scope),
                   architecture, default, scope, i + 1)

\* stack_layers(input_layer, architecture, default, scope): the builder
\* after the loop and the last layer of the stack
stack_layers(b, input_layer, architecture, default, scope) ==
    StackFrom([b |-> b, l |-> input_layer], architecture, default, scope, 1)

(***************************************************************************)
(* keras.models.Model: the layers of a model are listed by decreasing      *)
(* depth (the longest path to an output), layers of equal depth in         *)
(* creation order.                                                         *)
(***************************************************************************)
Max(S) == CHOOSE x \in S : \A y \in S : y <= x

Consumers(g, i) == {j \in DOMAIN g : \E k \in DOMAIN g[j].inbound : g[j].inbound[k] = i}

\* the depths of the layers i..Len(g), acc being those of the layers after i
\* (a layer is created before the layers that are called on it)
RECURSIVE DepthsFrom(_, _, _)
DepthsFrom(g, i, acc) ==
    IF i = 0 THEN acc
    ELSE LET c == Consumers(g, i)
             d == IF c = {} THEN 0 ELSE 1 + Max({acc[j - i] : j \in c})
         IN  DepthsFrom(g, i - 1, <<d>> \o acc)

\* the layers of depth dd, dd - 1, ..., 0, each depth in creation order
RECURSIVE ByDepth(_, _, _)
ByDepth(n, d, dd) ==
    LET AtDepth(i) == d[i] = dd
        here == SelectSeq([i \in 1..n |-> i], AtDepth)
    IN  IF dd = 0 THEN here ELSE here \o ByDepth(n, d, dd - 1)

KerasOrder(g) ==
    IF g = <<>> THEN <<>>
    ELSE LET d == DepthsFrom(g, Len(g), <<>>)
         IN  ByDepth(Len(g), d, Max({d[i] : i \in DOMAIN d}))

\* Model(inputs=..., outputs=..., name=scope)
Model(g, inputs, outputs, scope) ==
    [name |-> scope, g |-> g, layers |-> KerasOrder(g),
     inputs |-> inputs, outputs |-> outputs]

\* model.layers[n] (n counted from 0)
LayerAt(m, n) == m.g[m.layers[n + 1]]

NoModel == [name |-> NoScope, g |-> <<>>, layers |-> <<>>, inputs |-> <<>>, outputs |-> <<>>]

(***************************************************************************)
(* classifier_model                                                        *)
(***************************************************************************)
\* (mutant) the output layer is called on the input, not on the stack
ClassifierGraphSkipStack(b0, num_params, architecture, default, scope) ==
    LET b1 == [b0 EXCEPT !.g = <<InputNode(num_params, layer_name(scope, <<"input">>))>>]
        s  == stack_layers(b1, 1, architecture, default, scope)
    IN  AddNamed(s.b, "Dense", layer_name(scope, <<"output">>), <<1>>,
                 [units |-> PyNum(1), activation |-> PyStr("sigmoid")])

\* the graph of classifier_model, with the builder's counters
ClassifierGraph(b0, num_params, architecture, default, scope) ==
    LET b1 == [b0 EXCEPT !.g = <<InputNode(num_params, layer_name(scope, <<"input">>))>>]
        s  == stack_layers(b1, 1, architecture, default, scope)
    IN  AddNamed(s.b, "Dense", layer_name(scope, <<"output">>), <<s.l>>,
                 [units |-> PyNum(1), activation |-> PyStr("sigmoid")])

classifier_model(b0, num_params, architecture, default, scope) ==
    LET b == ClassifierGraph(b0, num_params, architecture, default, scope)
    IN  [b EXCEPT !.g = Model(b.g, <<1>>, <<Len(b.g)>>, scope)]

(***************************************************************************)
(* adversary_model                                                         *)
(***************************************************************************)
\* Dense(gmm_components, activation=..., name=<base>_<i>)(features), for
\* i = 1..gmm_dimensions
RECURSIVE AddPerDimension(_, _, _, _, _, _, _)
AddPerDimension(b, scope, base, activation, features, gmm_components, dims) ==
    IF dims = 0 THEN b
    ELSE AddNamed(AddPerDimension(b, scope, base, activation, features,
                                  gmm_components, dims - 1),
                  "Dense", layer_name(scope, <<base, "_", ToString(dims)>>), <<features>>,
                  [units |-> PyNum(gmm_components), activation |-> PyStr(activation)])

\* [r_coeffs] + r_means + r_widths + [adversary_input_par], the coefficients
\* being layer c and the parameter input layer par
PosteriorInputs(c, gmm_dimensions, par) ==
    [k \in 1..(2 * gmm_dimensions + 2) |->
        IF k = 2 * gmm_dimensions + 2 THEN par ELSE c + k - 1]

AdversaryGraph(b0, gmm_dimensions, gmm_components, architecture, default, scope) ==
    LET \* the three inputs, the re-scaling of pt (named by Keras) and the
        \* concatenation of the classifier output and pt
        b1 == [b0 EXCEPT !.g =
                 << InputNode(1, layer_name(scope, <<"input", "_", "clf">>)),
                    InputNode(1, layer_name(scope, <<"input", "_", "pt">>)),
                    InputNode(gmm_dimensions, layer_name(scope, <<"input", "_", "par">>)),
                    Node("Lambda", <<"lambda">>, <<2>>, EmptyDict),
                    Node("Concatenate", layer_name(scope, <<"concatenate">>), <<1, 4>>,
                         EmptyDict) >>]
        s  == stack_layers(b1, 5, architecture, default, scope)
        b2 == AddNamed(s.b, "Dense", layer_name(scope, <<"coeffs">>), <<s.l>>,
                       [units |-> PyNum(gmm_components), activation |-> PyStr("softmax")])
        c  == Len(b2.g)
        b3 == AddPerDimension(b2, scope, "means", "sigmoid", s.l, gmm_components,
                              gmm_dimensions)
        b4 == AddPerDimension(b3, scope, "widths", "softplus", s.l, gmm_components,
                              gmm_dimensions)
    IN  AddNamed(b4, "PosteriorLayer", layer_name(scope, <<"output">>),
                 PosteriorInputs(c, gmm_dimensions, 3),
                 [gmm_components |-> PyNum(gmm_components),
                  gmm_dimensions |-> PyNum(gmm_dimensions)])

adversary_model(b0, gmm_dimensions, gmm_components, architecture, default, scope) ==
    LET b == AdversaryGraph(b0, gmm_dimensions, gmm_components, architecture, default, scope)
    IN  [b EXCEPT !.g = Model(b.g, <<1, 2, 3>>, <<Len(b.g)>>, scope)]

(***************************************************************************)
(* combined_model                                                          *)
(***************************************************************************)
\* layer.input_shape[1:] of an input layer
InputShape(layer) == layer.kwargs.shape.num

\* filter(lambda l: type(l) == InputLayer, adversary.layers)
InputLayers(m) ==
    LET IsInput(i) == m.g[i].cls = "InputLayer" IN
    [k \in DOMAIN SelectSeq(m.layers, IsInput) |-> m.g[SelectSeq(m.layers, IsInput)[k]]]

\* filter(lambda l: l.name.endswith(suffix), input_layers)[0]
FirstEndingWith(input_layers, suffix) ==
    LET Ends(l) == EndsWith(l.name, suffix) IN
    SelectSeq(input_layers, Ends)[1]

\* (mutant) the learning-rate ratio is left out of the scale
ReversalScaleNoRatio(lambda_reg, lr_ratio) == lambda_reg

\* the scale of the gradient reversal layer
ReversalScale(lambda_reg, lr_ratio) == lambda_reg * lr_ratio

\* [gradient_reversal] + inputs_adv
AdversaryCallInputs(gradient_reversal, inputs_adv) == <<gradient_reversal>> \o inputs_adv

\* the inputs and the outputs of the combined model
CombinedInputs(combined_input_clf, inputs_adv) == <<combined_input_clf>> \o inputs_adv

CombinedOutputs(combined_output_clf, outputs_adv) == <<combined_output_clf>> \o outputs_adv

CombinedGraph(b0, clf, adv, lambda_reg, lr_ratio, scope) ==
    LET classifier_input    == LayerAt(clf, 0)
        \* 1: combined_input_clf, 2: combined_output_clf
        b1 == [b0 EXCEPT !.g =
                 << InputNode(InputShape(classifier_input),
                              layer_name(scope, ReplaceSlash(classifier_input.name))),
                    Node("Model", clf.name, <<1>>, EmptyDict) >>]
        \* 3: gradient_reversal
        b2 == AddCounted(b1, scope, "GradientReversalLayer", <<2>>,
                         [hp_lambda |-> PyNum(ReversalScale(lambda_reg, lr_ratio))])
        input_layers        == InputLayers(adv)
        adversary_input_pt  == FirstEndingWith(input_layers, <<"_", "pt">>)
        adversary_input_par == FirstEndingWith(input_layers, <<"_", "par">>)
        \* 4, 5: inputs_adv
        b3 == AddNamed(b2, "InputLayer",
                       layer_name(scope, ReplaceSlash(adversary_input_pt.name)), <<>>,
                       [shape |-> PyNum(InputShape(adversary_input_pt))])
        b4 == AddNamed(b3, "InputLayer",
                       layer_name(scope, ReplaceSlash(adversary_input_par.name)), <<>>,
                       [shape |-> PyNum(InputShape(adversary_input_par))])
        \* 6: outputs_adv
    IN  AddNamed(b4, "Model", adv.name, AdversaryCallInputs(3, <<4, 5>>), EmptyDict)

combined_model(b0, clf, adv, lambda_reg, lr_ratio, scope) ==
    LET b == CombinedGraph(b0, clf, adv, lambda_reg, lr_ratio, scope)
    IN  [b EXCEPT !.g = Model(b.g, CombinedInputs(1, <<4, 5>>),
                              CombinedOutputs(2, <<6>>), scope)]

(***************************************************************************)
(* Inputs of the factory methods.                                          *)
(***************************************************************************)
LayerSpecs ==
    { [units |-> PyNum(2)],
      [units |-> PyNum(3), batchnorm |-> PyBool(TRUE), dropout |-> PyNum(20)],
      [units |-> PyNum(2), activation |-> PyStr("tanh"), batchnorm |-> PyBool(FALSE),
       dropout |-> PyNum(0), l1reg |-> PyNum(1)] }

Defaults ==
    { EmptyDict,
      [units |-> PyNum(4), activation |-> PyStr("relu"), batchnorm |-> PyBool(TRUE),
       l2reg |-> PyNum(5)] }

Architectures == UNION {[1..n -> LayerSpecs] : n \in 0..MaxArch}

Scopes == {<<"classifier">>, NoScope}

AdversaryScopes == {<<"adversary">>}

NumParams == {2, 3}

GmmDimensions == {1, 2}

GmmComponents == {2}

LambdaRegs == {2, 10}

LrRatios == {3}

\* the layer counters stay within the cap
WithinCap(b) == \A k \in UidKeys : b.uid[k] <= MaxUid

Builder == [g |-> <<>>, uid |-> uid, rng |-> rng]

\* the factory method called last, with its scope and its numeric arguments
NoCall == [fn |-> "", scope |-> NoScope, args |-> <<>>]

\* The configuration (the architecture list and the default options of the
\* layers) is fixed at the start; the factory methods are then called in any
\* order, any number of times.
Init ==
    /\ config \in [architecture : Architectures, default : Defaults]
    /\ classifier = NoModel
    /\ adversary = NoModel
    /\ combined = NoModel
    /\ uid = [k \in UidKeys |-> 0]
    /\ rng = 0
    /\ call = NoCall

ClassifierModel ==
    \E num_params \in NumParams, scope \in Scopes :
    \E r \in {classifier_model(Builder, num_params, config.architecture,
                               config.default, scope)} :
        /\ WithinCap(r)
        /\ classifier' = r.g
        /\ uid' = r.uid
        /\ rng' = r.rng
        /\ call' = [fn |-> "classifier_model", scope |-> scope, args |-> <<num_params>>]
        /\ UNCHANGED <<config, adversary, combined>>

AdversaryModel ==
    \E gmm_dimensions \in GmmDimensions, gmm_components \in GmmComponents :
    \E scope \in AdversaryScopes :
    \E r \in {adversary_model(Builder, gmm_dimensions, gmm_components,
                              config.architecture, config.default, scope)} :
        /\ WithinCap(r)
        /\ adversary' = r.g
        /\ uid' = r.uid
        /\ rng' = r.rng
        /\ call' = [fn |-> "adversary_model", scope |-> scope,
                    args |-> <<gmm_dimensions, gmm_components>>]
        /\ UNCHANGED <<config, classifier, combined>>

CombinedModel ==
    /\ classifier # NoModel
    /\ adversary # NoModel
    /\ \E lambda_reg \in LambdaRegs, lr_ratio \in LrRatios :
       \E r \in {combined_model(Builder, classifier, adversary, lambda_reg, lr_ratio,
                                <<"combined">>)} :
        /\ WithinCap(r)
        /\ combined' = r.g
        /\ uid' = r.uid
        /\ rng' = r.rng
        /\ call' = [fn |-> "combined_model", scope |-> <<"combined">>,
                    args |-> <<lambda_reg, lr_ratio>>]
        /\ UNCHANGED <<config, classifier, adversary>>

Next == ClassifierModel \/ AdversaryModel \/ CombinedModel

Spec == Init /\ [][Next]_vars

(***************************************************************************)
(* What the documentation of stack_layers says of a layer's options: its   *)
(* own value, else the default's, else the fallback.                       *)
(***************************************************************************)
Popped == {"batchnorm", "dropout", "l1reg", "l2reg"}

Effective(spec, default, key, fallback) ==
    IF key \in DOMAIN spec THEN spec[key]
    ELSE IF key \in DOMAIN default THEN default[key]
    ELSE fallback

ExpectedBlock(spec, default) ==
    (IF Truthy(Effective(spec, default, "batchnorm", PyBool(FALSE)))
     THEN <<"BatchNormalization">> ELSE <<>>)
    \o <<"Dense">>
    \o (IF Truthy(Effective(spec, default, "dropout", PyNone))
        THEN <<"Dropout">> ELSE <<>>)

RECURSIVE ExpectedStack(_, _, _)
ExpectedStack(architecture, default, n) ==
    IF n = 0 THEN <<>>
    ELSE ExpectedStack(architecture, default, n - 1)
         \o ExpectedBlock(architecture[n], default)

\* The stack of the factory method called last: the graph it is in, the
\* layer stack_layers was given, and the first layer created after the stack
\* (the classifier's output layer, the adversary's coefficients).
StackCalled == call.fn \in {"classifier_model", "adversary_model"}

StackGraph == IF call.fn = "classifier_model" THEN classifier.g ELSE adversary.g

StackInput == IF call.fn = "classifier_model" THEN 1 ELSE 5

StackUser ==
    IF call.fn = "classifier_model"
    THEN Len(classifier.g)
    ELSE Len(adversary.g) - 2 * call.args[1] - 1

StackSegment == SubSeq(StackGraph, StackInput + 1, StackUser - 1)

IsDense(node) == node.cls = "Dense"

\* the position in the segment of the Dense layer of the i-th entry
DensePosition(i) ==
    CHOOSE k \in DOMAIN StackSegment :
        /\ IsDense(StackSegment[k])
        /\ Cardinality({j \in 1..k : IsDense(StackSegment[j])}) = i

(***************************************************************************)
(* C2: every entry of the architecture list contributes exactly one Dense  *)
(* layer, preceded by a BatchNormalization layer iff its effective         *)
(* batchnorm option is truthy and followed by a Dropout layer iff its      *)
(* effective dropout option is truthy; the layers are chained in the order *)
(* of the list, each called on the previous one, the first on the input    *)
(* layer, and the layer returned is the last one of the chain.             *)
(***************************************************************************)
C2_StackLayersChain ==
    StackCalled =>
        /\ [k \in DOMAIN StackSegment |-> StackSegment[k].cls]
               = ExpectedStack(config.architecture, config.default,
                               Len(config.architecture))
        /\ Len(SelectSeq(StackSegment, IsDense)) = Len(config.architecture)
        /\ \A k \in DOMAIN StackSegment :
               StackSegment[k].inbound = <<StackInput + k - 1>>
        /\ StackGraph[StackUser].inbound[1] = StackInput + Len(StackSegment)

\* a stack of two entries built for the adversary, one with both optional
\* layers and one with neither
C2_Witness ==
    /\ call.fn = "adversary_model"
    /\ Len(config.architecture) = 2
    /\ \E k \in DOMAIN StackSegment : StackSegment[k].cls = "BatchNormalization"
    /\ \E k \in DOMAIN StackSegment : StackSegment[k].cls = "Dropout"
    /\ Len(StackSegment) = 4

(***************************************************************************)
(* C3: the options of a layer are the default dictionary overwritten by    *)
(* the layer's own: every keyword argument of its Dense layer, the rate of *)
(* its Dropout layer and the strengths of its regularisers have the        *)
(* layer's value when the layer's dictionary has the key, else the         *)
(* default's, else False/None; and batchnorm, dropout, l1reg and l2reg are *)
(* never keyword arguments of Dense.                                       *)
(***************************************************************************)
C3_EffectiveOptions ==
    StackCalled =>
        /\ Len(SelectSeq(StackSegment, IsDense)) = Len(config.architecture)
        /\ \A i \in DOMAIN config.architecture :
            LET spec    == config.architecture[i]
                default == config.default
                k       == DensePosition(i)
                dense   == StackSegment[k]
                keys    == ((DOMAIN spec) \cup (DOMAIN default)) \ Popped
                l1reg   == Effective(spec, default, "l1reg", PyNone)
                l2reg   == Effective(spec, default, "l2reg", PyNone)
                dropout == Effective(spec, default, "dropout", PyNone)
            IN  /\ (DOMAIN dense.kwargs) \cap Popped = {}
                /\ DOMAIN dense.kwargs
                       = keys \cup {"activity_regularizer", "kernel_regularizer"}
                /\ \A key \in keys :
                       dense.kwargs[key] = Effective(spec, default, key, PyNone)
                /\ dense.kwargs["activity_regularizer"]
                       = IF Truthy(l1reg) THEN RegL1(l1reg) ELSE PyNone
                /\ dense.kwargs["kernel_regularizer"]
                       = IF Truthy(l2reg) THEN RegL2(l2reg) ELSE PyNone
                /\ Truthy(dropout) =>
                       /\ k < Len(StackSegment)
                       /\ StackSegment[k + 1].cls = "Dropout"
                       /\ StackSegment[k + 1].kwargs["rate"] = dropout

\* a layer that overrides a default, inherits another and leaves a third unset
C3_Witness ==
    /\ StackCalled
    /\ config.default # EmptyDict
    /\ \E i \in DOMAIN config.architecture :
        LET spec == config.architecture[i] IN
        /\ "activation" \in DOMAIN spec
        /\ spec["activation"] # config.default["activation"]
        /\ "l2reg" \notin DOMAIN spec
        /\ StackSegment[DensePosition(i)].kwargs["activation"] = spec["activation"]
    /\ \E i \in DOMAIN config.architecture :
        "batchnorm" \notin DOMAIN config.architecture[i]

(***************************************************************************)
(* C1: the combined model has the inputs [classifier input, pt input, par  *)
(* input] and the outputs [classifier output, adversary output]; the       *)
(* adversary is called on the gradient reversal layer (itself called on    *)
(* the classifier output) and on the two inputs, never on the classifier   *)
(* output itself; the scale of the gradient reversal layer is              *)
(* lambda_reg * lr_ratio.                                                  *)
(***************************************************************************)
CombinedCalled == call.fn = "combined_model"

\* the adversary's inputs, in the order adversary_model declares them
AdversaryInput(n) == adversary.g[adversary.inputs[n]]

C1_CombinedModelWiring ==
    CombinedCalled =>
        LET g        == combined.g
            in_clf   == g[combined.inputs[1]]
            in_pt    == g[combined.inputs[2]]
            in_par   == g[combined.inputs[3]]
            out_clf  == g[combined.outputs[1]]
            out_adv  == g[combined.outputs[2]]
            reversal == g[out_adv.inbound[1]]
        IN  /\ Len(combined.inputs) = 3
            /\ Len(combined.outputs) = 2
            /\ in_clf.cls = "InputLayer"
            /\ in_clf.kwargs = classifier.g[classifier.inputs[1]].kwargs
            /\ in_pt.cls = "InputLayer"
            /\ EndsWith(in_pt.name, <<"input", "_", "pt">>)
            /\ in_pt.kwargs = AdversaryInput(2).kwargs
            /\ in_par.cls = "InputLayer"
            /\ EndsWith(in_par.name, <<"input", "_", "par">>)
            /\ in_par.kwargs = AdversaryInput(3).kwargs
            /\ out_clf = Node("Model", classifier.name, <<combined.inputs[1]>>, EmptyDict)
            /\ out_adv.cls = "Model"
            /\ out_adv.name = adversary.name
            /\ SubSeq(out_adv.inbound, 2, 3) = SubSeq(combined.inputs, 2, 3)
            /\ reversal.cls = "GradientReversalLayer"
            /\ reversal.inbound = <<combined.outputs[1]>>
            /\ \A k \in DOMAIN out_adv.inbound : out_adv.inbound[k] # combined.outputs[1]
            /\ reversal.kwargs = [hp_lambda |-> PyNum(call.args[1] * call.args[2])]

\* a combined model of a classifier without scope and an adversary whose
\* parameter input is wider than its pt input and is not its third layer
C1_Witness ==
    /\ CombinedCalled
    /\ classifier.name = NoScope
    /\ AdversaryInput(3).kwargs # AdversaryInput(2).kwargs
    /\ adversary.layers[3] # adversary.inputs[3]
    /\ Len(config.architecture) > 0

(***************************************************************************)
(* C4: the adversary has two inputs, the first being the output of the     *)
(* classifier and the second the variables against which the               *)
(* de-correlation is performed, and combined_model calls the adversary     *)
(* with exactly these two inputs.                                          *)
(***************************************************************************)
C4_AdversaryHasTwoInputs ==
    CombinedCalled =>
        LET out_adv == combined.g[combined.outputs[2]] IN
        /\ Len(adversary.inputs) = 2
        /\ Len(out_adv.inbound) = 2
        /\ combined.g[out_adv.inbound[1]].inbound = <<combined.outputs[1]>>
        /\ EndsWith(combined.g[out_adv.inbound[2]].name, <<"input", "_", "par">>)

(***************************************************************************)
(* C5 as stated: the classifier is sequential N -> 1; layers[0] is its     *)
(* single input layer, of width num_params and named '<scope>/input'; the  *)
(* stacked layers of the architecture follow in order; its single output   *)
(* is a sigmoid Dense layer of width 1 named '<scope>/output', called on   *)
(* the input when the architecture is empty.                               *)
(***************************************************************************)
ClassifierCalled == call.fn = "classifier_model"

\* the classifier but for the names of its input and output layers
ClassifierSequential ==
    LET g == classifier.g
        n == Len(g)
    IN  /\ classifier.inputs = <<classifier.layers[1]>>
        /\ LayerAt(classifier, 0).cls = "InputLayer"
        /\ LayerAt(classifier, 0).kwargs = [shape |-> PyNum(call.args[1])]
        /\ classifier.layers = [k \in 1..n |-> k]
        /\ \A k \in 2..n : g[k].inbound = <<k - 1>>
        /\ [k \in 1..(n - 2) |-> g[k + 1].cls]
               = ExpectedStack(config.architecture, config.default,
                               Len(config.architecture))
        /\ classifier.outputs = <<n>>
        /\ g[n].cls = "Dense"
        /\ g[n].kwargs = [units |-> PyNum(1), activation |-> PyStr("sigmoid")]
        /\ (config.architecture = <<>>) => (n = 2)

C5_ScopedNames ==
    ClassifierCalled =>
        /\ ClassifierSequential
        /\ LayerAt(classifier, 0).name = call.scope \o <<"/", "input">>
        /\ classifier.g[Len(classifier.g)].name = call.scope \o <<"/", "output">>

(***************************************************************************)
(* C5 as amended: the same, the input and output layers being named        *)
(* '<scope>/input' and '<scope>/output' when the scope is not empty and    *)
(* 'input' and 'output' when it is empty or None.                          *)
(***************************************************************************)
C5_ClassifierSequential ==
    ClassifierCalled =>
        /\ ClassifierSequential
        /\ LayerAt(classifier, 0).name
               = IF call.scope = NoScope THEN <<"input">>
                 ELSE call.scope \o <<"/", "input">>
        /\ classifier.g[Len(classifier.g)].name
               = IF call.scope = NoScope THEN <<"output">>
                 ELSE call.scope \o <<"/", "output">>

\* a classifier without scope and with an empty architecture, and so with
\* the output layer called on the input
C5_Witness ==
    /\ ClassifierCalled
    /\ call.scope = NoScope
    /\ config.architecture = <<>>
    /\ classifier.g[2].inbound = <<1>>

====
